---- MODULE Spec2Model ----
(***************************************************************************)
(* A model of show_renamer.py: the matching pipeline (keyword normalizer,  *)
(* filename segmenter, season/episode extractor, fuzzy matcher), the TV    *)
(* and movie resolvers and the rename driver.                              *)
(*                                                                         *)
(* Python str values are TLA+ strings; Python's None and dict.get() on a   *)
(* missing key are the empty tuple None, and a present value v is <<v>>.   *)
(***************************************************************************)
EXTENDS Integers, Sequences, FiniteSets, TLC

VARIABLES
    pc,          \* position of main(): "start", "walk", "done", "exited"; "call"/"ret" for a function applied on its own
    api_key,     \* os.getenv('TMDB_API_KEY'): None or <<string>>
    args,        \* argparse result: [type, dry_run]
    fs,          \* the directory args.dir: file name -> identity of the file stored under it
    fs0,         \* the directory as it was when main() started
    walk,        \* the file names os.walk still has to yield
    rename_log,  \* lines written by rename_logger (rename_log.txt)
    error_log,   \* lines written by error_logger (error_log.txt)
    stderr,      \* lines printed to sys.stderr
    exit_code,   \* None while running or after a normal return, <<n>> after sys.exit(n)
    catalog_calls, \* number of requests sent to the catalog
    os_renames,  \* the os.rename calls made: [old, new, replaced, raised]
    handled,     \* per file handed to a resolver: [path, resp, did] (the answers it got, what its call did)
    call,        \* arguments of a function applied on its own
    ret          \* its return value

vars == <<pc, api_key, args, fs, fs0, walk, rename_log, error_log, stderr,
          exit_code, catalog_calls, os_renames, handled, call, ret>>

(***************************************************************************)
(* Python values                                                           *)
(***************************************************************************)
None == <<>>

Some(v) == <<v>>

\* Python's `a or b` on optional strings: a when a is truthy (not None, not '').
OrStr(a, b) == IF a # None /\ a[1] # "" THEN a ELSE b

\* Python's `a or b` on optional ints: a when a is truthy (not None, not 0).
OrInt(a, b) == IF a # None /\ a[1] # 0 THEN a ELSE b

\* A value computed once and used under the name F gives it (a local variable).
With(v, F(_)) == F(v)

\* Truthiness of an optional string (`if best:`).
TruthyStr(a) == a # None /\ a[1] # ""

\* The characters the model's strings are made of, in code point order.
Alphabet == " '()-./0123456789ABCDEFGHIJKLMNOPQRSTUVWXYZ_abcdefghijklmnopqrstuvwxyz"

UpperCase == "ABCDEFGHIJKLMNOPQRSTUVWXYZ"

LowerCase == "abcdefghijklmnopqrstuvwxyz"

\* s[i-1] of Python, '' out of range.
Ch(s, i) == IF i >= 1 /\ i <= Len(s) THEN SubSeq(s, i, i) ELSE ""

\* s[i-1:] of Python.
From(s, i) == SubSeq(s, i, Len(s))

CharsOf(s) == {SubSeq(s, i, i) : i \in 1..Len(s)}

\* Position of a character in code point order (str comparison in sorted()).
Ord == [c \in CharsOf(Alphabet) |-> CHOOSE i \in 1..Len(Alphabet) : SubSeq(Alphabet, i, i) = c]

Digits == CharsOf("0123456789")

\* \w of re on the model's characters.
WordChars == CharsOf(UpperCase) \cup CharsOf(LowerCase) \cup Digits \cup {"_"}

\* \s of re on the model's characters.
Whitespace == {" "}

\* [._\s] of the two segmenter patterns.
Separators == {".", "_"} \cup Whitespace

DigitVal == [c \in Digits |-> Ord[c] - Ord["0"]]

LowerChar(c) ==
    IF c \in CharsOf(UpperCase)
    THEN LET i == CHOOSE k \in 1..Len(UpperCase) : SubSeq(UpperCase, k, k) = c
         IN SubSeq(LowerCase, i, i)
    ELSE c

RECURSIVE lower(_)
\* str.lower()
lower(s) == IF s = "" THEN "" ELSE LowerChar(Ch(s, 1)) \o lower(From(s, 2))

RECURSIVE join(_, _)
\* sep.join(words)
join(sep, words) ==
    IF words = <<>> THEN ""
    ELSE IF Len(words) = 1 THEN words[1]
    ELSE words[1] \o sep \o join(sep, Tail(words))

RECURSIVE SplitOn(_, _, _, _)
\* The maximal runs of characters outside `seps`, left to right (empty runs dropped).
SplitOn(s, seps, i, cur) ==
    IF i > Len(s) THEN (IF cur = "" THEN <<>> ELSE <<cur>>)
    ELSE IF Ch(s, i) \in seps
         THEN (IF cur = "" THEN <<>> ELSE <<cur>>) \o SplitOn(s, seps, i + 1, "")
         ELSE SplitOn(s, seps, i + 1, cur \o Ch(s, i))

\* int() of a string of decimal digits.
int(s) ==
    IF Len(s) = 1 THEN DigitVal[Ch(s, 1)]
    ELSE 10 * DigitVal[Ch(s, 1)] + DigitVal[Ch(s, 2)]

\* f"{n:02d}"
Format02d(n) == IF n >= 0 /\ n < 10 THEN "0" \o ToString(n) ELSE ToString(n)

(***************************************************************************)
(* CONFIG                                                                  *)
(***************************************************************************)
VIDEO_EXTS == {".mkv", ".mp4", ".avi", ".mov", ".wmv"}

STOPWORDS == {"the", "and", "of", "a", "to", "in", "on", "at", "for"}

FUZZY_THRESHOLD == 80

EPISODE_THRESHOLD == 70

(***************************************************************************)
(* Keyword normalizer                                                      *)
(***************************************************************************)
\* re.split(r'\W+', text.lower()) without the empty strings and the stopwords.
clean_keywords(text) ==
    LET words == SplitOn(lower(text), CharsOf(Alphabet) \ WordChars, 1, "")
    IN SelectSeq(words, LAMBDA w : w \notin STOPWORDS)

(***************************************************************************)
(* Filename segmenter                                                      *)
(***************************************************************************)
IsDigitAt(s, i) == Ch(s, i) \in Digits

\* s[i-1:].startswith(lit)
StartsAt(s, i, lit) == i >= 1 /\ i + Len(lit) - 1 <= Len(s) /\ SubSeq(s, i, i + Len(lit) - 1) = lit

\* [._\s][sS]?\d{1,2}[xXeE]\d{1,2} matches at position i.
MarkerAt(s, i) ==
    /\ Ch(s, i) \in Separators
    /\ \E a \in {0, 1} : \E d \in {1, 2} :
         /\ a = 1 => Ch(s, i + 1) \in {"s", "S"}
         /\ \A k \in 1..d : IsDigitAt(s, i + a + k)
         /\ Ch(s, i + a + d + 1) \in {"x", "X", "e", "E"}
         /\ IsDigitAt(s, i + a + d + 2)

\* [._\s](?:\d{3,4}p|WEB[-_.]DL|HDTV|DD\d\.\d|BluRay) matches at position i.
QualityTagAt(s, i) ==
    /\ Ch(s, i) \in Separators
    /\ \/ \E d \in {3, 4} : (\A k \in 1..d : IsDigitAt(s, i + k)) /\ Ch(s, i + d + 1) = "p"
       \/ StartsAt(s, i + 1, "WEB") /\ Ch(s, i + 4) \in {"-", "_", "."} /\ StartsAt(s, i + 5, "DL")
       \/ StartsAt(s, i + 1, "HDTV")
       \/ StartsAt(s, i + 1, "DD") /\ IsDigitAt(s, i + 3) /\ Ch(s, i + 4) = "." /\ IsDigitAt(s, i + 5)
       \/ StartsAt(s, i + 1, "BluRay")

\* The least position of S, 0 when S is empty.
First(S) == IF S = {} THEN 0 ELSE CHOOSE i \in S : \A j \in S : i <= j

\* Lines 51-55 once the two searches are done: m and q are the positions of the
\* first marker and of the first quality tag (0: none).
cut_at(filename_base, m, q) ==
    IF m # 0 THEN SubSeq(filename_base, 1, m - 1)
    ELSE IF q # 0 THEN SubSeq(filename_base, 1, q - 1)
    ELSE filename_base

split_show_and_rest(filename_base) ==
    cut_at(filename_base,
           First({i \in 1..Len(filename_base) : MarkerAt(filename_base, i)}),
           First({i \in 1..Len(filename_base) : QualityTagAt(filename_base, i)}))

(***************************************************************************)
(* Season/episode extractor                                                *)
(***************************************************************************)
\* The greedy \d{1,2} at position i when the rest of the pattern needs no backtracking.
Digits12(s, i) == IF IsDigitAt(s, i + 1) THEN SubSeq(s, i, i + 1) ELSE SubSeq(s, i, i)

\* Number of digits (\d{1,2}, greedy, then backtracking) at position i that a
\* character of `next` and a digit follow; 0 when the pattern does not match.
Digits12Then(s, i, next) ==
    IF IsDigitAt(s, i) /\ IsDigitAt(s, i + 1) /\ Ch(s, i + 2) \in next /\ IsDigitAt(s, i + 3) THEN 2
    ELSE IF IsDigitAt(s, i) /\ Ch(s, i + 1) \in next /\ IsDigitAt(s, i + 2) THEN 1
    ELSE 0

\* The groups of the first pattern matched at position p, as (season, episode).
groups_SxxExx(name, p, d) ==
    <<Some(int(SubSeq(name, p + 1, p + d))), Some(int(Digits12(name, p + d + 2)))>>

groups_NxNN(name, p, d) ==
    <<Some(int(SubSeq(name, p, p + d - 1))), Some(int(Digits12(name, p + d + 1)))>>

\* Lines 79-83 once each pattern is searched: p1..p4 are the positions of the
\* leftmost match of the four patterns (0: no match).
first_pattern(name, p1, p2, p3, p4) ==
    IF p1 # 0 THEN groups_SxxExx(name, p1, Digits12Then(name, p1 + 1, {"e", "E"}))
    ELSE IF p2 # 0 THEN groups_NxNN(name, p2, Digits12Then(name, p2, {"x", "X"}))
    ELSE IF p3 # 0 THEN <<None, Some(int(Digits12(name, p3 + 1)))>>
    ELSE IF p4 # 0 THEN <<Some(int(Ch(name, p4))), Some(int(SubSeq(name, p4 + 1, p4 + 2)))>>
    ELSE <<None, None>>

extract_season_episode(name) ==
    first_pattern(name,
        First({i \in 1..Len(name) : Ch(name, i) \in {"s", "S"} /\ Digits12Then(name, i + 1, {"e", "E"}) # 0}),
        First({i \in 1..Len(name) : Digits12Then(name, i, {"x", "X"}) # 0}),
        First({i \in 1..Len(name) : Ch(name, i) \in {"e", "E"} /\ IsDigitAt(name, i + 1)}),
        First({i \in 1..Len(name) : /\ \A k \in 0..2 : IsDigitAt(name, i + k)
                                     /\ Ch(name, i - 1) \notin WordChars
                                     /\ Ch(name, i + 3) \notin WordChars}))

(***************************************************************************)
(* Fuzzy matcher (rapidfuzz: process.extractOne, fuzz.token_sort_ratio)    *)
(***************************************************************************)
\* str.split()
split_ws(s) == SplitOn(s, Whitespace, 1, "")

RECURSIVE StrLess(_, _)
\* a < b on str
StrLess(a, b) ==
    IF b = "" THEN FALSE
    ELSE IF a = "" THEN TRUE
    ELSE IF Ch(a, 1) = Ch(b, 1) THEN StrLess(From(a, 2), From(b, 2))
    ELSE Ord[Ch(a, 1)] < Ord[Ch(b, 1)]

RECURSIVE Insert(_, _)
Insert(ws, w) ==
    IF ws = <<>> THEN <<w>>
    ELSE IF StrLess(w, ws[1]) THEN <<w>> \o ws
    ELSE <<ws[1]>> \o Insert(Tail(ws), w)

RECURSIVE sorted(_)
\* sorted() of a list of str
sorted(ws) == IF ws = <<>> THEN <<>> ELSE Insert(sorted(SubSeq(ws, 1, Len(ws) - 1)), ws[Len(ws)])

Max(a, b) == IF a >= b THEN a ELSE b

RECURSIVE LcsRow(_, _, _, _, _)
\* One row of the longest-common-subsequence table: acc[j + 1] is the length for
\* the prefix of a ending in character c and the first j characters of b.
LcsRow(prev, c, b, j, acc) ==
    IF j > Len(b) THEN acc
    ELSE With(Append(acc, IF c = Ch(b, j) THEN prev[j] + 1 ELSE Max(prev[j + 1], acc[j])),
              LAMBDA row : IF Len(row) = j + 1 THEN LcsRow(prev, c, b, j + 1, row) ELSE row)

RECURSIVE LcsRows(_, _, _, _)
LcsRows(a, b, i, prev) ==
    IF i > Len(a) THEN prev[Len(b) + 1]
    ELSE With(LcsRow(prev, Ch(a, i), b, 1, <<0>>),
              LAMBDA row : IF Len(row) = Len(b) + 1 THEN LcsRows(a, b, i + 1, row) ELSE 0)

\* Length of the longest common subsequence of a and b.
lcs_len(a, b) == LcsRows(a, b, 1, [k \in 1..(Len(b) + 1) |-> 0])

\* fuzz.ratio: the normalized Indel similarity, as the fraction num/den of 1
\* (the library returns 100 * num / den; two empty strings score 100).
ratio(a, b) ==
    IF Len(a) + Len(b) = 0 THEN [num |-> 1, den |-> 1]
    ELSE [num |-> 2 * lcs_len(a, b), den |-> Len(a) + Len(b)]

\* fuzz.token_sort_ratio: the ratio of the two strings with their words sorted.
token_sort_ratio(s1, s2) == ratio(join(" ", sorted(split_ws(s1))), join(" ", sorted(split_ws(s2))))

\* score x > score y
ScoreGreater(x, y) == x.num * y.den > y.num * x.den

\* score >= threshold (a percentage)
ScoreAtLeast(x, threshold) == 100 * x.num >= threshold * x.den

\* The better of the best so far and choice i with its score: a later choice
\* replaces an earlier one only with a strictly greater score.
better(best, i, choice, score) ==
    IF i = 1 \/ ScoreGreater(score, best.score) THEN [match |-> choice, score |-> score] ELSE best

RECURSIVE extractOne(_, _, _, _)
\* process.extractOne: the first choice of the greatest score, as [match, score].
extractOne(query, choices, i, best) ==
    IF i > Len(choices) THEN best
    ELSE With(better(best, i, choices[i], token_sort_ratio(query, choices[i])),
              LAMBDA next : IF next.score.den > 0 THEN extractOne(query, choices, i + 1, next) ELSE next)

NoChoice == [match |-> "", score |-> [num |-> 0, den |-> 1]]

\* fuzzy_match returning the best choice whatever its score.
fuzzy_match_any_score(query, candidates, threshold) ==
    IF candidates = <<>> THEN None
    ELSE With(extractOne(query, candidates, 1, NoChoice), LAMBDA best : Some(best.match))

fuzzy_match(query, candidates, threshold) ==
    IF candidates = <<>> THEN None
    ELSE With(extractOne(query, candidates, 1, NoChoice),
              LAMBDA best : IF ScoreAtLeast(best.score, threshold) THEN Some(best.match) ELSE None)

(***************************************************************************)
(* Show and episode matching                                               *)
(***************************************************************************)
\* next(x for x in xs if P(x)), None when there is none.
FirstWhere(xs, P(_)) ==
    LET i == First({k \in 1..Len(xs) : P(xs[k])})
    IN IF i = 0 THEN None ELSE Some(xs[i])

\* s.get('name') or s.get('title')
title_of(s) == OrStr(s.name, s.title)

\* [title_of(x) for x in xs]
titles_of(xs) == [k \in 1..Len(xs) |-> title_of(xs[k])[1]]

\* Lines 59-62.
exact_show(show_name, all_shows) ==
    FirstWhere(all_shows, LAMBDA s : lower(OrStr(title_of(s), Some(""))[1]) = lower(show_name))

\* Lines 67-69 and 98-100: the first entry that carries the matched title.
entry_of(best, xs) ==
    IF TruthyStr(best) THEN FirstWhere(xs, LAMBDA x : title_of(x) = best) ELSE None

fuzzy_match_show(show_name, all_shows) ==
    With(exact_show(show_name, all_shows), LAMBDA exact :
        IF exact # None THEN exact
        ELSE entry_of(fuzzy_match(join(" ", clean_keywords(show_name)), titles_of(all_shows),
                                  FUZZY_THRESHOLD),
                      all_shows))

\* Lines 88-93: the first episode whose numbers are those of se = (season, num),
\* when both are set.
exact_episode(se, episodes) ==
    IF se[1] # None /\ se[2] # None
    THEN FirstWhere(episodes,
                    LAMBDA ep : /\ OrInt(ep.season_number, ep.season) = se[1]
                                /\ OrInt(ep.episode_number, ep.number) = se[2])
    ELSE None

fuzzy_match_episode(hint, episodes) ==
    With(exact_episode(extract_season_episode(hint), episodes), LAMBDA exact :
        IF exact # None THEN exact
        ELSE entry_of(fuzzy_match(join(" ", clean_keywords(hint)), titles_of(episodes),
                                  EPISODE_THRESHOLD),
                      episodes))

(***************************************************************************)
(* os.path and os.rename                                                   *)
(***************************************************************************)
\* Position of the last character of s that is in cs, 0 when there is none.
Last(s, cs) ==
    LET S == {i \in 1..Len(s) : Ch(s, i) \in cs}
    IN IF S = {} THEN 0 ELSE CHOOSE i \in S : \A j \in S : j <= i

\* os.path.join(a, b) for a relative b.
path_join(a, b) == IF a = "" \/ Ch(a, Len(a)) = "/" THEN a \o b ELSE a \o "/" \o b

\* head.rstrip('/') unless head is made of slashes only.
strip_slashes(head, stop) == IF stop = 0 THEN head ELSE SubSeq(head, 1, stop)

\* os.path.split(p): <<head, tail>>, cut at slash i, the last one.
split_at(p, i) ==
    <<strip_slashes(SubSeq(p, 1, i), Last(SubSeq(p, 1, i), CharsOf(Alphabet) \ {"/"})), From(p, i + 1)>>

path_split(p) == split_at(p, Last(p, {"/"}))

\* os.path.splitext(p): <<root, ext>>, cut at the last dot unless only dots
\* precede it in the file name.
splitext_at(p, sep, dot) ==
    IF dot > sep /\ \E k \in (sep + 1)..(dot - 1) : Ch(p, k) # "."
    THEN <<SubSeq(p, 1, dot - 1), From(p, dot)>>
    ELSE <<p, "">>

splitext(p) == splitext_at(p, Last(p, {"/"}), Last(p, {"."}))

\* os.rename(old, new) on the directory fs. It raises when the source is missing
\* or when the operating system refuses (`refused`: permissions, or an existing
\* target on a platform that does not replace); otherwise the file takes the new
\* name, replacing whatever was stored under it.
os_rename(dir, old, new, refused) ==
    IF old \notin DOMAIN dir \/ refused
    THEN [fs |-> dir, raised |-> Some("OSError"), replaced |-> FALSE]
    ELSE [fs |-> [q \in (DOMAIN dir \ {old}) \cup {new} |-> IF q = new THEN dir[old] ELSE dir[q]],
          raised |-> None,
          replaced |-> new \in DOMAIN dir]

(***************************************************************************)
(* Resolvers.  A resolver's catalog requests and its os.rename are answered *)
(* by resp: [shows, details, episodes, movies: [ok, val], refused].  Its    *)
(* result is what the call did: the lines it logged, the exception it       *)
(* raised, the directory it left, the requests it sent.                     *)
(***************************************************************************)
\* str(x) inside an f-string
Str(opt) == IF opt = None THEN "None" ELSE opt[1]

Returned(dir) ==
    [errors |-> <<>>, renames |-> <<>>, raised |-> None, fs |-> dir, requests |-> 0,
     renamed |-> <<>>, all_eps |-> <<>>, ep |-> None, plan |-> None, uncaught |-> FALSE]

\* do_rename without the test of line 176 / 204.
do_rename_always(old, new, dry_run, resp, logged) ==
    With(os_rename(logged.fs, old, new, resp.refused), LAMBDA r :
         [logged EXCEPT !.fs = r.fs, !.raised = r.raised,
                        !.renamed = <<[old |-> old, new |-> new,
                                       raised |-> r.raised # None,
                                       replaced |-> r.replaced]>>])

\* Lines 176-177 and 204-205: the rename, unless the run only simulates.
do_rename(old, new, dry_run, resp, logged) ==
    IF dry_run THEN logged
    ELSE With(os_rename(logged.fs, old, new, resp.refused), LAMBDA r :
              [logged EXCEPT !.fs = r.fs, !.raised = r.raised,
                             !.renamed = <<[old |-> old, new |-> new,
                                            raised |-> r.raised # None,
                                            replaced |-> r.replaced]>>])

\* emit_rename without the test of line 172 / 200.
emit_rename_untested(old, new, dry_run, resp, so_far) ==
    do_rename(old, new, dry_run, resp,
              [so_far EXCEPT !.plan = Some(<<old, new>>),
                             !.renames = <<old \o " -> " \o new>>])

\* Lines 170-177 and 198-205: the no-op test, the log line, the rename.
emit_rename(old, new, dry_run, resp, so_far) ==
    IF old = new THEN [so_far EXCEPT !.plan = Some(<<old, new>>)]
    ELSE do_rename(old, new, dry_run, resp,
                   [so_far EXCEPT !.plan = Some(<<old, new>>),
                                  !.renames = <<old \o " -> " \o new>>])

\* Lines 155-157: the episodes of one season, each tagged with the season's number.
tagged(eps, num) == [j \in 1..Len(eps) |-> [eps[j] EXCEPT !.season_number = num]]

RECURSIVE collect_episodes_break(_, _, _, _)
\* collect_episodes leaving the loop at the first season whose fetch fails.
collect_episodes_break(seasons, fetched, k, all_eps) ==
    IF k > Len(seasons) \/ ~fetched[k].ok THEN all_eps
    ELSE With(all_eps \o tagged(fetched[k].val, seasons[k].season_number),
              LAMBDA more : IF Len(more) >= 0
                            THEN collect_episodes_break(seasons, fetched, k + 1, more)
                            ELSE more)

RECURSIVE collect_episodes(_, _, _, _)
\* The loop of lines 148-157 from season k on.
collect_episodes(seasons, fetched, k, all_eps) ==
    IF k > Len(seasons) THEN all_eps
    ELSE With(IF ~fetched[k].ok THEN all_eps
              ELSE all_eps \o tagged(fetched[k].val, seasons[k].season_number),
              LAMBDA more : IF Len(more) >= 0
                            THEN collect_episodes(seasons, fetched, k + 1, more)
                            ELSE more)

\* Line 169, with the format specs that raise on None.
tv_name(title, s, e, ep_title, ext) ==
    Str(title) \o " - S" \o Format02d(s[1]) \o "E" \o Format02d(e[1]) \o " - " \o Str(ep_title) \o ext

\* Lines 165-177.
tv_rename(path, dirname, ext, show, ep, s, e, dry_run, resp, so_far) ==
    IF s = None \/ e = None THEN [so_far EXCEPT !.raised = Some("TypeError")]
    ELSE emit_rename(path,
                     path_join(dirname, tv_name(OrStr(show.name, show.original_name), s, e,
                                                title_of(ep), ext)),
                     dry_run, resp, so_far)

\* Lines 146-177.
tv_episode(path, dirname, fname, base, ext, show, dry_run, resp, so_far) ==
    With(collect_episodes(resp.details.val, resp.episodes, 1, <<>>), LAMBDA all_eps :
    With(fuzzy_match_episode(base, all_eps), LAMBDA ep :
    With([so_far EXCEPT !.requests = 2 + Len(resp.details.val), !.all_eps = all_eps], LAMBDA fetched :
        IF ep = None
        THEN [fetched EXCEPT !.errors = <<"Episode not found: " \o fname>>]
        ELSE tv_rename(path, dirname, ext, show, ep[1], ep[1].season_number,
                       OrInt(ep[1].episode_number, ep[1].number), dry_run, resp,
                       [fetched EXCEPT !.ep = ep]))))

\* Lines 131-177.
tv_show(path, dirname, fname, base, ext, dry_run, resp, so_far) ==
    IF ~resp.shows.ok
    THEN [so_far EXCEPT !.requests = 1, !.raised = Some("HTTPError")]
    ELSE With(fuzzy_match_show(split_show_and_rest(base), resp.shows.val), LAMBDA show :
        IF show = None
        THEN [so_far EXCEPT !.requests = 1, !.errors = <<"Show not found: " \o fname>>]
        ELSE IF ~resp.details.ok
        THEN [so_far EXCEPT !.requests = 2, !.raised = Some("HTTPError")]
        ELSE tv_episode(path, dirname, fname, base, ext, show[1], dry_run, resp, so_far))

rename_tv_file(path, dry_run, resp, dir) ==
    With(path_split(path), LAMBDA dn :
    With(splitext(dn[2]), LAMBDA be :
        tv_show(path, dn[1], dn[2], be[1], be[2], dry_run, resp, Returned(dir))))

\* a[:n] of Python
Prefix(a, n) == SubSeq(a, 1, IF Len(a) < n THEN Len(a) ELSE n)

\* Lines 184-190: the exact match, else the fuzzy one.
find_movie(base, results) ==
    With(FirstWhere(results, LAMBDA m : lower(IF m.title = None THEN "" ELSE m.title[1]) = lower(base)),
         LAMBDA exact :
            IF exact # None THEN exact
            ELSE With(fuzzy_match(join(" ", clean_keywords(base)),
                                  [k \in 1..Len(results) |-> results[k].title[1]],
                                  FUZZY_THRESHOLD),
                      LAMBDA best :
                         IF TruthyStr(best) THEN FirstWhere(results, LAMBDA m : m.title = best)
                         ELSE None))

\* Lines 195-197.
movie_name(movie, ext) ==
    Str(movie.title) \o " (" \o Prefix(OrStr(movie.release_date, Some(""))[1], 4) \o ")" \o ext

\* Lines 183-205.
movie_lookup(path, dirname, fname, base, ext, dry_run, resp, so_far) ==
    IF ~resp.movies.ok
    THEN [so_far EXCEPT !.requests = 1, !.raised = Some("HTTPError")]
    ELSE With(find_movie(base, resp.movies.val), LAMBDA movie :
        IF movie = None
        THEN [so_far EXCEPT !.requests = 1, !.errors = <<"Movie not found: " \o fname>>]
        ELSE emit_rename(path, path_join(dirname, movie_name(movie[1], ext)), dry_run, resp,
                         [so_far EXCEPT !.requests = 1]))

rename_movie_file(path, dry_run, resp, dir) ==
    With(path_split(path), LAMBDA dn :
    With(splitext(dn[2]), LAMBDA be :
        movie_lookup(path, dn[1], dn[2], be[1], be[2], dry_run, resp, Returned(dir))))

(***************************************************************************)
(* What the environment can be: the directory, the catalog's answers       *)
(***************************************************************************)
\* Greatest number of files in the directory.
MaxFiles == 2

\* args.dir
Dir == "/m"

TvNames ==
    {"seinfeld.1x01.mkv", "Seinfeld - S01E01 - Pilot.mkv", "seinfeld.S02E01.MKV", "notes.txt"}

MovieNames == {"inception.mkv", "INCEPTION.mkv", "heat ().mkv", "notes.txt"}

Ok(v) == [ok |-> TRUE, val |-> v]

\* A request that raised (raise_for_status, a network error).
Failed == [ok |-> FALSE, val |-> <<>>]

Show(id, name) == [id |-> id, name |-> Some(name), title |-> None, original_name |-> Some(name)]

Episode(number, name) ==
    [season_number |-> None, season |-> None, episode_number |-> Some(number),
     number |-> None, name |-> Some(name), title |-> None]

Movie(title, release_date) == [title |-> Some(title), release_date |-> release_date]

CatalogShows == <<Show(1, "Seinfeld")>>

CatalogSeasons == <<[season_number |-> Some(1)], [season_number |-> Some(2)]>>

CatalogEpisodes == <<<<Episode(1, "Pilot"), Episode(2, "Stakeout")>>, <<Episode(1, "Ex")>>>>

NoAnswer == [shows |-> Failed, details |-> Failed, episodes |-> <<>>, movies |-> Failed, refused |-> FALSE]

\* The answers a TV run can get for one file.
TvResponses ==
    {[NoAnswer EXCEPT !.shows = sh] : sh \in {Failed, Ok(<<>>), Ok(CatalogShows)}}
    \cup
    {[NoAnswer EXCEPT !.shows = Ok(CatalogShows), !.details = Ok(CatalogSeasons),
                      !.episodes = [k \in 1..Len(CatalogSeasons) |->
                                        IF k \in good THEN Ok(CatalogEpisodes[k]) ELSE Failed],
                      !.refused = refused] :
        good \in SUBSET (1..Len(CatalogSeasons)), refused \in BOOLEAN}

\* The answers a movie run can get for one file.
MovieResponses ==
    {[NoAnswer EXCEPT !.movies = mv] : mv \in {Failed, Ok(<<>>)}}
    \cup
    {[NoAnswer EXCEPT !.movies = Ok(mv), !.refused = refused] :
        mv \in {<<Movie("Inception", Some("2010-07-16"))>>, <<Movie("heat", None)>>},
        refused \in BOOLEAN}

Responses(type) == IF type = "tv" THEN TvResponses ELSE MovieResponses

\* The orders in which os.walk can yield the names S.
Orders(S) == {q \in [1..Cardinality(S) -> S] : \A i, j \in 1..Cardinality(S) : i # j => q[i] # q[j]}

(***************************************************************************)
(* main()                                                                  *)
(***************************************************************************)
\* Lines 232-233.
IsVideo(f) == lower(splitext(f)[2]) \in VIDEO_EXTS

\* The loop body without try/except: an exception leaves main().
except_nothing(full, r) == [r EXCEPT !.uncaught = r.raised # None]

\* Lines 240-241: the except clause.
except_Exception(full, r) ==
    IF r.raised = None THEN r
    ELSE [r EXCEPT !.errors = r.errors \o <<"Error processing " \o full \o ": " \o r.raised[1]>>]

\* Lines 235-241: the resolver of the run's type, inside try.
try_file(full, a, resp, dir) ==
    except_Exception(full,
        IF a.type = "tv" THEN rename_tv_file(full, a.dry_run, resp, dir)
        ELSE rename_movie_file(full, a.dry_run, resp, dir))

Init ==
    /\ pc = "start"
    /\ api_key \in {None, Some(""), Some("key")}
    /\ args \in [type : {"tv", "movie"}, dir : {Dir}, dry_run : BOOLEAN]
    /\ \E names \in SUBSET (IF args.type = "tv" THEN TvNames ELSE MovieNames) :
         /\ Cardinality(names) <= MaxFiles
         /\ fs = [q \in {path_join(args.dir, n) : n \in names} |-> q]
    /\ fs0 = fs
    /\ walk = <<>>
    /\ rename_log = <<>>
    /\ error_log = <<>>
    /\ stderr = <<>>
    /\ exit_code = None
    /\ catalog_calls = 0
    /\ os_renames = <<>>
    /\ handled = <<>>
    /\ call = [fn |-> "main"]
    /\ ret = None

\* MissingKey without sys.exit(1): the message is printed and main() goes on.
MissingKey_no_exit ==
    /\ pc = "start"
    /\ ~TruthyStr(api_key)
    /\ stderr' = Append(stderr, "Error: TMDB_API_KEY not set in environment.")
    /\ walk' \in Orders({path_split(q)[2] : q \in DOMAIN fs})
    /\ pc' = "walk"
    /\ UNCHANGED <<api_key, args, fs, fs0, rename_log, error_log, exit_code, catalog_calls,
                   os_renames, handled, call, ret>>

\* Lines 214-217: no credential.
MissingKey ==
    /\ pc = "start"
    /\ ~TruthyStr(api_key)
    /\ stderr' = Append(stderr, "Error: TMDB_API_KEY not set in environment.")
    /\ exit_code' = Some(1)
    /\ pc' = "exited"
    /\ UNCHANGED <<api_key, args, fs, fs0, walk, rename_log, error_log, catalog_calls,
                   os_renames, handled, call, ret>>

\* Lines 219-230: the log sinks are opened and os.walk lists the directory.
Begin ==
    /\ pc = "start"
    /\ TruthyStr(api_key)
    /\ walk' \in Orders({path_split(q)[2] : q \in DOMAIN fs})
    /\ pc' = "walk"
    /\ UNCHANGED <<api_key, args, fs, fs0, rename_log, error_log, stderr, exit_code,
                   catalog_calls, os_renames, handled, call, ret>>

\* Lines 232-233: a file that is no video is passed over.
SkipFile ==
    /\ pc = "walk"
    /\ walk # <<>>
    /\ ~IsVideo(Head(walk))
    /\ walk' = Tail(walk)
    /\ UNCHANGED <<pc, api_key, args, fs, fs0, rename_log, error_log, stderr, exit_code,
                   catalog_calls, os_renames, handled, call, ret>>

\* Lines 234-241: one video file goes through its resolver.
ProcessFile ==
    /\ pc = "walk"
    /\ walk # <<>>
    /\ IsVideo(Head(walk))
    /\ \E resp \in Responses(args.type) :
       \E full \in {path_join(args.dir, Head(walk))} :
       \E r \in {try_file(full, args, resp, fs)} :
            /\ rename_log' = rename_log \o r.renames
            /\ error_log' = error_log \o r.errors
            /\ fs' = r.fs
            /\ catalog_calls' = catalog_calls + r.requests
            /\ os_renames' = os_renames \o r.renamed
            /\ handled' = Append(handled, [path |-> full, resp |-> resp, did |-> r])
            /\ IF r.uncaught
               THEN pc' = "exited" /\ exit_code' = Some(1) /\ walk' = walk
               ELSE pc' = pc /\ exit_code' = exit_code /\ walk' = Tail(walk)
    /\ UNCHANGED <<api_key, args, fs0, stderr, call, ret>>

\* Line 230: os.walk is exhausted and main() returns.
Finish ==
    /\ pc = "walk"
    /\ walk = <<>>
    /\ pc' = "done"
    /\ UNCHANGED <<api_key, args, fs, fs0, walk, rename_log, error_log, stderr, exit_code,
                   catalog_calls, os_renames, handled, call, ret>>

Next == MissingKey \/ Begin \/ SkipFile \/ ProcessFile \/ Finish

Spec == Init /\ [][Next]_vars

(***************************************************************************)
(* Properties of a run of main()                                           *)
(***************************************************************************)
RECURSIVE Concat(_)
\* The concatenation of a sequence of sequences.
Concat(ss) == IF ss = <<>> THEN <<>> ELSE ss[1] \o Concat(Tail(ss))

\* The video files of the directory main() was started on.
Videos == {q \in DOMAIN fs0 : IsVideo(path_split(q)[2])}

\* What the resolver does with file h.path alone, on the directory as it was at
\* the start, given the answers h.resp.
Alone(h) == try_file(h.path, args, h.resp, fs0)

\* The file whose processing the loop has just come back from, if any.  handled
\* only ever grows at its end and the loop goes on after each file, so every
\* processed file is this one in some reachable state.
Latest == IF pc = "walk" /\ handled # <<>> THEN {handled[Len(handled)]} ELSE {}

\* C1: per-file failure isolation.  With a credential the run never aborts; every
\* video file of the traversal is handed to the resolver, once; the file processed
\* last wrote and planned what its processing alone does given its own answers,
\* whatever happened to the files before it (some of which raised); a file whose
\* processing raised has exactly one line in the error log, the driver's; and the two
\* logs are, in order, what the files wrote.
C1_FailureIsolation ==
    TruthyStr(api_key) =>
        /\ pc # "exited"
        /\ pc = "done" => /\ {handled[i].path : i \in 1..Len(handled)} = Videos
                          /\ Len(handled) = Cardinality(Videos)
        /\ \A h \in Latest :
           \A alone \in {Alone(h)} :
                /\ h.did.errors = alone.errors
                /\ h.did.renames = alone.renames
                /\ h.did.plan = alone.plan
        /\ \A i \in 1..Len(handled) :
             handled[i].did.raised # None =>
                  handled[i].did.errors =
                      <<"Error processing " \o handled[i].path \o ": " \o handled[i].did.raised[1]>>
        /\ error_log = Concat([i \in 1..Len(handled) |-> handled[i].did.errors])
        /\ rename_log = Concat([i \in 1..Len(handled) |-> handled[i].did.renames])

\* A run in which the first file raised and the second was renamed all the same.
C1_Witness ==
    /\ pc = "done"
    /\ Len(handled) = 2
    /\ handled[1].did.raised # None
    /\ handled[2].did.renamed # <<>>
    /\ ~handled[2].did.renamed[1].raised
    /\ Len(error_log) = 1

\* C2: no rename ever replaces an existing file.
C2_NoSilentOverwrite == \A i \in 1..Len(os_renames) : ~os_renames[i].replaced

\* The new path computed for handled file i equals its old path.
SamePath(h) == h.did.plan # None /\ h.did.plan[1][1] = h.did.plan[1][2]

\* C3: a step that processes a file whose computed new path equals its old path
\* writes to neither log, calls no os.rename and leaves the directory as it is.
C3_NoOp ==
    [][(Len(handled') = Len(handled) + 1 /\ SamePath(handled'[Len(handled')]))
         => /\ rename_log' = rename_log
            /\ error_log' = error_log
            /\ os_renames' = os_renames
            /\ fs' = fs]_vars

\* A TV file already named as the resolver would name it has been processed.
C3_Witness == \E i \in 1..Len(handled) : SamePath(handled[i])

\* C4: a simulated run calls no os.rename and leaves the directory as it was; its
\* rename log is what its files logged, and the file processed last logged the
\* lines and sent the requests it does with the same answers in a run that is not
\* simulated.
C4_DryRun ==
    args.dry_run =>
        /\ fs = fs0 /\ os_renames = <<>>
        /\ rename_log = Concat([i \in 1..Len(handled) |-> handled[i].did.renames])
        /\ \A h \in Latest :
          \A wet \in {try_file(h.path, [args EXCEPT !.dry_run = FALSE], h.resp, fs0)} :
             /\ h.did.renames = wet.renames
             /\ h.did.requests = wet.requests
             /\ h.did.plan = wet.plan

\* A simulated run that logged a rename.
C4_Witness == args.dry_run /\ pc = "done" /\ rename_log # <<>> /\ handled # <<>>

\* C5: without a credential main() prints to stderr and exits with a non-zero
\* code; nothing is listed, requested, logged or renamed.
C5_MissingCredential ==
    ~TruthyStr(api_key) =>
        /\ pc \in {"start", "exited"}
        /\ pc = "exited" => stderr # <<>> /\ exit_code # None /\ exit_code[1] # 0
        /\ walk = <<>> /\ handled = <<>> /\ catalog_calls = 0
        /\ rename_log = <<>> /\ error_log = <<>> /\ os_renames = <<>> /\ fs = fs0

\* main() has exited on an empty credential, in a directory that holds videos.
C5_Witness == api_key = Some("") /\ pc = "exited" /\ Videos # {}

\* The TV resolver got as far as fetching the seasons of h's show.
FetchedSeasons(h) ==
    /\ args.type = "tv"
    /\ h.resp.shows.ok /\ h.resp.details.ok
    /\ h.did.errors # <<"Show not found: " \o path_split(h.path)[2]>>

RECURSIVE PoolUpTo(_, _)
\* The episodes the catalog answered for the first k seasons, a failed season
\* contributing none, each with the number of the season it was asked for.
PoolUpTo(resp, k) ==
    IF k = 0 THEN <<>>
    ELSE PoolUpTo(resp, k - 1) \o
         (IF resp.episodes[k].ok
          THEN [j \in 1..Len(resp.episodes[k].val) |->
                  [season_number |-> resp.details.val[k].season_number,
                   season |-> resp.episodes[k].val[j].season,
                   episode_number |-> resp.episodes[k].val[j].episode_number,
                   number |-> resp.episodes[k].val[j].number,
                   name |-> resp.episodes[k].val[j].name,
                   title |-> resp.episodes[k].val[j].title]]
          ELSE <<>>)

\* The same answers with every season's fetch succeeding.
AllFetched(resp) == [resp EXCEPT !.episodes = [k \in 1..Len(resp.details.val) |-> Ok(CatalogEpisodes[k])]]

\* The fetch of the season that episode ep belongs to succeeded.
SeasonFetched(resp, ep) ==
    \E k \in 1..Len(resp.details.val) :
        resp.episodes[k].ok /\ resp.details.val[k].season_number = ep.season_number

\* C6: a failed season fetch raises and logs nothing; the pool is the episodes of
\* the seasons fetched, in season order, each tagged with its season's number; and
\* the episode the file resolves to when every fetch succeeds is still the one it
\* resolves to whenever that episode's own season was fetched.
C6_SeasonFailuresSwallowed ==
    /\ \A i \in 1..Len(handled) :
        FetchedSeasons(handled[i]) =>
            /\ handled[i].did.all_eps = PoolUpTo(handled[i].resp, Len(handled[i].resp.details.val))
            /\ handled[i].did.raised # Some("HTTPError")
            /\ handled[i].did.requests = 2 + Len(handled[i].resp.details.val)
    /\ \A h \in Latest :
        FetchedSeasons(h) =>
            \A full \in {try_file(h.path, args, AllFetched(h.resp), fs0)} :
                 (full.ep # None /\ SeasonFetched(h.resp, full.ep[1]))
                     => h.did.ep = full.ep /\ h.did.plan = full.plan

\* A file resolved to an episode of season 2 although the fetch of season 1 failed.
C6_Witness ==
    \E i \in 1..Len(handled) :
        /\ FetchedSeasons(handled[i])
        /\ ~handled[i].resp.episodes[1].ok
        /\ handled[i].resp.episodes[2].ok
        /\ handled[i].did.ep # None
        /\ handled[i].did.errors = <<>>

\* C10: every processed file wrote at most one log line in all, and in a run that
\* is not simulated every line of the rename log stands for an os.rename that was
\* carried out.
C10_LogOutcomeConsistency ==
    \A i \in 1..Len(handled) :
        /\ Len(handled[i].did.renames) + Len(handled[i].did.errors) <= 1
        /\ (~args.dry_run /\ handled[i].did.renames # <<>>) =>
              /\ handled[i].did.renamed # <<>>
              /\ ~handled[i].did.renamed[1].raised

(***************************************************************************)
(* The functions of the matching pipeline applied on their own: pc = "call" *)
(* with the arguments in call, then pc = "ret" with the value in ret.       *)
(***************************************************************************)
\* No run of main(): its variables stay as they are.
NoRun ==
    /\ api_key = None
    /\ args = [type |-> "tv", dir |-> Dir, dry_run |-> TRUE]
    /\ fs = <<>> /\ fs0 = <<>> /\ walk = <<>>
    /\ rename_log = <<>> /\ error_log = <<>> /\ stderr = <<>>
    /\ exit_code = None /\ catalog_calls = 0 /\ os_renames = <<>> /\ handled = <<>>

runVars == <<api_key, args, fs, fs0, walk, rename_log, error_log, stderr, exit_code,
             catalog_calls, os_renames, handled>>

RECURSIVE Joined(_, _)
\* The strings made of at most n of the given parts.
Joined(parts, n) ==
    IF n = 0 THEN {""}
    ELSE Joined(parts, n - 1) \cup {b \o q : b \in Joined(parts, n - 1), q \in parts}

\* The sequences over S of length at most n.
SeqsUpTo(S, n) == UNION {[1..k -> S] : k \in 0..n}

\* Greatest number of parts of a base name.
MaxParts == 3

NameParts ==
    {"a", "b.", "S", "1", "x2", ".S1E2", ".s01e02", ".1x2", ".S1x2", ".E7", " E07", ".720p", "_HDTV"}

InitSegmenter ==
    /\ pc = "call"
    /\ call \in {[fn |-> "split_show_and_rest", base |-> b] : b \in Joined(NameParts, MaxParts)}
    /\ ret = None
    /\ NoRun

Segment ==
    /\ pc = "call"
    /\ ret' = split_show_and_rest(call.base)
    /\ pc' = "ret"
    /\ UNCHANGED <<call, runVars>>

SpecSegmenter == InitSegmenter /\ [][Segment]_vars

\* Greatest number of candidates of one match.
MaxCandidates == 2

Titles == {"Lost", "lost", "lots", "The Lot"}

Queries == {"", "lost", "Lost", "lot", "lost the"}

InitMatcher ==
    /\ pc = "call"
    /\ call \in [query : Queries, candidates : SeqsUpTo(Titles, MaxCandidates),
                 threshold : {0, EPISODE_THRESHOLD, FUZZY_THRESHOLD, 100}]
    /\ ret = None
    /\ NoRun

\* fuzzy_match on the candidates.
Match ==
    /\ pc = "call"
    /\ ret' = [fn |-> "fuzzy_match",
               val |-> fuzzy_match(call.query, call.candidates, call.threshold)]
    /\ pc' = "ret"
    /\ UNCHANGED <<call, runVars>>

\* fuzzy_match_show on shows that carry the candidates as names.
MatchShow ==
    /\ pc = "call"
    /\ ret' = [fn |-> "fuzzy_match_show",
               val |-> fuzzy_match_show(call.query,
                          [k \in 1..Len(call.candidates) |-> Show(k, call.candidates[k])])]
    /\ pc' = "ret"
    /\ UNCHANGED <<call, runVars>>

\* fuzzy_match_episode on episodes that carry the candidates as names.
MatchEpisode ==
    /\ pc = "call"
    /\ ret' = [fn |-> "fuzzy_match_episode",
               val |-> fuzzy_match_episode(call.query,
                          [k \in 1..Len(call.candidates) |-> Episode(k, call.candidates[k])])]
    /\ pc' = "ret"
    /\ UNCHANGED <<call, runVars>>

\* The movie resolver's match on movies that carry the candidates as titles.
MatchMovie ==
    /\ pc = "call"
    /\ ret' = [fn |-> "find_movie",
               val |-> find_movie(call.query,
                          [k \in 1..Len(call.candidates) |-> Movie(call.candidates[k], None)])]
    /\ pc' = "ret"
    /\ UNCHANGED <<call, runVars>>

SpecMatcher == InitMatcher /\ [][Match \/ MatchShow \/ MatchEpisode \/ MatchMovie]_vars

\* Greatest number of episodes in a pool.
MaxPool == 2

HintNumbers == {"0", "1", "01", "2"}

Hints ==
    {"a.S" \o a \o "E" \o b : a \in HintNumbers, b \in HintNumbers}
    \cup {"a." \o a \o "x" \o b : a \in HintNumbers, b \in HintNumbers}
    \cup {"a.E" \o b : b \in HintNumbers}
    \cup {"a.101", "a.001", "a.1011", "a", "b"}

PoolEpisodes ==
    {[season_number |-> sn, season |-> None, episode_number |-> Some(en), number |-> None,
      name |-> Some("a"), title |-> None] : sn \in {Some(0), Some(1)}, en \in {0, 1}}
    \cup
    {[season_number |-> None, season |-> Some(1), episode_number |-> None, number |-> Some(1),
      name |-> None, title |-> Some("b")]}

InitEpisode ==
    /\ pc = "call"
    /\ call \in [hint : Hints, episodes : SeqsUpTo(PoolEpisodes, MaxPool)]
    /\ ret = None
    /\ NoRun

ResolveEpisode ==
    /\ pc = "call"
    /\ ret' = fuzzy_match_episode(call.hint, call.episodes)
    /\ pc' = "ret"
    /\ UNCHANGED <<call, runVars>>

SpecEpisode == InitEpisode /\ [][ResolveEpisode]_vars

(***************************************************************************)
(* Properties of the matching pipeline                                     *)
(***************************************************************************)
\* A season/episode marker as the segmenter's contract names it, at position i: a
\* separator, then <1-2 digits>E<1-2 digits> or <1-2 digits>x<1-2 digits> with or
\* without a lone S in front, or a lone E<1-2 digits>.
ContractMarkerAt(s, i) ==
    /\ Ch(s, i) \in Separators
    /\ \/ Digits12Then(s, i + 1, {"x", "X", "e", "E"}) # 0
       \/ Ch(s, i + 1) \in {"s", "S"} /\ Digits12Then(s, i + 2, {"x", "X", "e", "E"}) # 0
       \/ Ch(s, i + 1) \in {"e", "E"} /\ IsDigitAt(s, i + 2)

\* C7: a base name with a marker is cut before the first marker's separator, also
\* when a quality tag occurs; without a marker it is cut before the first quality
\* tag; with neither it is returned whole.
C7_MarkerRule ==
    pc = "ret" =>
        \A m \in {First({i \in 1..Len(call.base) : ContractMarkerAt(call.base, i)})} :
        \A q \in {First({i \in 1..Len(call.base) : QualityTagAt(call.base, i)})} :
            ret = IF m # 0 THEN SubSeq(call.base, 1, m - 1)
                  ELSE IF q # 0 THEN SubSeq(call.base, 1, q - 1)
                  ELSE call.base

\* The similarity score of candidate c for query q.
Score(q, c) == token_sort_ratio(q, c)

\* r is a threshold-safe answer for query q over candidates cs at threshold t:
\* no match on an empty list and when no candidate reaches t, else a candidate of
\* greatest score, which reaches t.
ThresholdSafe(r, q, cs, t) ==
    /\ cs = <<>> => r = None
    /\ r = None <=> \A k \in 1..Len(cs) : ~ScoreAtLeast(Score(q, cs[k]), t)
    /\ r # None =>
         /\ \E k \in 1..Len(cs) : cs[k] = r[1]
         /\ ScoreAtLeast(Score(q, r[1]), t)
         /\ \A k \in 1..Len(cs) : ~ScoreGreater(Score(q, cs[k]), Score(q, r[1]))

\* Some candidate equals s up to case (the exact match that precedes the fuzzy one).
ExactTitle(s, cs) == \E k \in 1..Len(cs) : lower(cs[k]) = lower(s)

\* The title an optional entry carries.
TitleOf(entry) == IF entry = None THEN None ELSE OrStr(entry[1].name, entry[1].title)

\* C8: fuzzy_match is threshold-safe at every threshold; show and movie titles are
\* matched at 80 and episode titles at 70, which is lower.
C8_ThresholdSafety ==
    /\ EPISODE_THRESHOLD < FUZZY_THRESHOLD
    /\ pc = "ret" =>
         /\ ret.fn = "fuzzy_match" =>
              ThresholdSafe(ret.val, call.query, call.candidates, call.threshold)
         /\ (ret.fn = "fuzzy_match_show" /\ ~ExactTitle(call.query, call.candidates)) =>
              ThresholdSafe(TitleOf(ret.val), join(" ", clean_keywords(call.query)),
                            call.candidates, 80)
         /\ (ret.fn = "find_movie" /\ ~ExactTitle(call.query, call.candidates)) =>
              ThresholdSafe(IF ret.val = None THEN None ELSE ret.val[1].title,
                            join(" ", clean_keywords(call.query)), call.candidates, 80)
         /\ ret.fn = "fuzzy_match_episode" =>
              ThresholdSafe(TitleOf(ret.val), join(" ", clean_keywords(call.query)),
                            call.candidates, 70)

\* fuzzy_match returned the better of two candidates, the other one below the threshold.
C8_Witness ==
    /\ pc = "ret"
    /\ ret.fn = "fuzzy_match"
    /\ ret.val # None
    /\ call.threshold = FUZZY_THRESHOLD
    /\ \E k \in 1..Len(call.candidates) :
         ~ScoreAtLeast(Score(call.query, call.candidates[k]), call.threshold)

\* The season and episode numbers an episode carries: the first field present.
SeasonOf(ep) == IF ep.season_number # None THEN ep.season_number ELSE ep.season

NumberOf(ep) == IF ep.episode_number # None THEN ep.episode_number ELSE ep.number

\* C9: when the extractor yields both numbers and the pool holds an episode with
\* these numbers, the first such episode is returned.
C9_ExactBeforeFuzzy ==
    pc = "ret" =>
        \A se \in {extract_season_episode(call.hint)} :
        \A k \in 1..Len(call.episodes) :
            (/\ se[1] # None /\ se[2] # None
             /\ SeasonOf(call.episodes[k]) = se[1] /\ NumberOf(call.episodes[k]) = se[2]
             /\ \A j \in 1..(k - 1) :
                  ~(SeasonOf(call.episodes[j]) = se[1] /\ NumberOf(call.episodes[j]) = se[2]))
            => ret = Some(call.episodes[k])

====
